---- MODULE Spec2Model ----
(***************************************************************************)
(* A model of dagster_sdf/sdf_information_schema.py: the class             *)
(* SdfInformationSchema, which reads the sdf information schema tables     *)
(* (parquet files) and turns their rows into asset specs, asset checks     *)
(* and asset observations.                                                 *)
(*                                                                         *)
(* A data frame is the sequence of its rows, a row a record of its         *)
(* columns, a Python dict a function, a Python set a set.  Strings are     *)
(* strings: formatting is concatenation and str.endswith a comparison of   *)
(* the tail.  An AssetKey is its path, a tuple of strings.                 *)
(***************************************************************************)
EXTENDS Naturals, Sequences, FiniteSets, TLC

VARIABLES
    files,               \* the information schema directory: table name -> parquet file
    information_schema,  \* SdfInformationSchema.information_schema
    ret                  \* the outcome of the last call made on the instance

vars == <<files, information_schema, ret>>

(***************************************************************************)
(* Bounds of the inputs.                                                   *)
(***************************************************************************)
MaxRows == 2   \* rows of table_deps and of tables
MaxCols == 2   \* rows of columns
MaxLocs == 2   \* entries of a row's source_locations

(***************************************************************************)
(* Strings and paths.                                                      *)
(***************************************************************************)
EndsWith(s, suffix) ==
    /\ Len(s) >= Len(suffix)
    /\ SubSeq(s, Len(s) - Len(suffix) + 1, Len(s)) = suffix

StartsWith(s, prefix) ==
    /\ Len(s) >= Len(prefix)
    /\ SubSeq(s, 1, Len(prefix)) = prefix

\* Path.joinpath followed by os.fspath: an absolute argument replaces the base.
JoinPath(base, loc) ==
    IF StartsWith(loc, "/") THEN loc ELSE base \o "/" \o loc

workspace_dir == "/ws"

\* AssetKey(str): the key whose path is that one string.
AssetKey(s) == <<s>>

(***************************************************************************)
(* The translator, a parameter of the calls.  get_asset_key is any         *)
(* function of the three names; it is kept symbolic.                       *)
(***************************************************************************)
GetAssetKey(catalog_name, schema_name, table_name) ==
    <<catalog_name, schema_name, table_name>>

GetDescription(table_row) == "description of " \o table_row.table_id

Settings == [enable_asset_checks : BOOLEAN, enable_code_references : BOOLEAN]

(***************************************************************************)
(* read_table.                                                             *)
(***************************************************************************)
ValidTableNames ==
    {"tables", "columns", "table_lineage", "column_lineage", "table_deps"}

\* The names read_table is called with: the valid ones and one that is not.
CalledTableNames == ValidTableNames \cup {"models"}

File(rows) == [exists |-> TRUE, rows |-> rows]
NoFile == [exists |-> FALSE, rows |-> <<>>]

\* setdefault as a plain assignment d[key] = default.
SetDefaultIgnoringStored(d, key, default) == (key :> default) @@ d

\* dict.setdefault(key, default): the stored value stays when the key is present.
SetDefault(d, key, default) ==
    IF key \in DOMAIN d THEN d ELSE (key :> default) @@ d

\* read_table with the check made after the read instead of before it.
read_tableCheckLast(table_name, cache) ==
    IF table_name \notin DOMAIN files \/ ~files[table_name].exists
    THEN [raised |-> "FileNotFoundError", value |-> <<>>, cache |-> cache,
          reads |-> <<table_name>>]
    ELSE IF table_name \notin ValidTableNames
    THEN [raised |-> "CheckError", value |-> <<>>, cache |-> cache,
          reads |-> <<table_name>>]
    ELSE LET stored == SetDefault(cache, table_name, files[table_name].rows)
         IN  [raised |-> "none", value |-> stored[table_name], cache |-> stored,
              reads |-> <<table_name>>]

\* The outcome of read_table(table_name) with the cache `cache`: what is
\* raised, the data frame returned, the cache afterwards and the files read.
\* The argument of setdefault is evaluated before the call: the file is read
\* on every call that passes the check.
read_table(table_name, cache) ==
    IF table_name \notin ValidTableNames
    THEN [raised |-> "CheckError", value |-> <<>>, cache |-> cache, reads |-> <<>>]
    ELSE IF ~files[table_name].exists
    THEN [raised |-> "FileNotFoundError", value |-> <<>>, cache |-> cache,
          reads |-> <<table_name>>]
    ELSE LET stored == SetDefault(cache, table_name, files[table_name].rows)
         IN  [raised |-> "none", value |-> stored[table_name], cache |-> stored,
              reads |-> <<table_name>>]

ReadTable(table_name) ==
    LET r == read_table(table_name, information_schema)
    IN  /\ information_schema' = r.cache
        /\ ret' = [op |-> "read_table", table_name |-> table_name,
                   raised |-> r.raised, value |-> r.value, reads |-> r.reads,
                   before |-> information_schema]
        /\ UNCHANGED files

(***************************************************************************)
(* build_sdf_multi_asset_args.                                             *)
(***************************************************************************)
\* Step 0: ~pl.col("purpose").is_in(["system", "external-system"]).
NonInnerPurposes == {"system", "external-system"}

IsInnerPurpose(row) == row.purpose \notin NonInnerPurposes

FilterPurpose(rows) == SelectSeq(rows, IsInnerPurpose)

\* dep in table_deps["table_id"]: membership in the column of the filtered frame.
TableIdColumn(rows) == {rows[i].table_id : i \in 1..Len(rows)}

\* Step 1: {row["table_id"]: row for row in rows}; a later row replaces an
\* earlier one of the same table_id.
TableRowsDeps(rows) ==
    [id \in TableIdColumn(rows) |->
        LET last == CHOOSE i \in 1..Len(rows) :
                        /\ rows[i].table_id = id
                        /\ \A j \in (i + 1)..Len(rows) : rows[j].table_id # id
        IN  rows[last]]

\* Step 2.  The three collections it fills.
EmptyDeps == [table_id_to_dep |-> <<>>, table_id_to_upstream |-> <<>>,
              origin_remote_tables |-> {}]

\* table_id_to_upstream.setdefault(table_id, set()).add(key)
AddUpstream(upstream, table_id, key) ==
    IF table_id \in DOMAIN upstream
    THEN [upstream EXCEPT ![table_id] = @ \cup {key}]
    ELSE (table_id :> {key}) @@ upstream

\* One entry of a row's meta column (lines 123-133).
MetaStep(acc, table_row, meta_map) ==
    IF meta_map.keys = "dagster-asset-key"
    THEN [acc EXCEPT !.table_id_to_dep =
              (table_row.table_id :> AssetKey(meta_map.values)) @@ @]
    ELSE IF meta_map.keys = "dagster-depends-on-asset-key"
    THEN [acc EXCEPT !.table_id_to_upstream =
              AddUpstream(@, table_row.table_id, AssetKey(meta_map.values))]
    ELSE IF table_row.origin = "remote"
    THEN [acc EXCEPT !.origin_remote_tables = @ \cup {table_row.table_id}]
    ELSE acc

RECURSIVE MetaLoop(_, _, _, _)
MetaLoop(acc, table_row, meta, i) ==
    IF i > Len(meta) THEN acc
    ELSE MetaLoop(MetaStep(acc, table_row, meta[i]), table_row, meta, i + 1)

\* One row of the loop of lines 118-135.
DepsStep(acc, table_row) ==
    IF Len(table_row.meta) > 0
    THEN MetaLoop(acc, table_row, table_row.meta, 1)
    ELSE IF table_row.origin = "remote"
    THEN [acc EXCEPT !.origin_remote_tables = @ \cup {table_row.table_id}]
    ELSE acc

RECURSIVE DepsLoop(_, _, _)
DepsLoop(acc, rows, i) ==
    IF i > Len(rows) THEN acc
    ELSE DepsLoop(DepsStep(acc, rows[i]), rows, i + 1)

BuildDeps(rows) == DepsLoop(EmptyDeps, rows, 1)

(***************************************************************************)
(* _extract_code_ref.                                                      *)
(***************************************************************************)
\* next((s for s in source_locations if s.endswith(suffix)), None)
FirstEndingWith(source_locations, suffix) ==
    LET hits == {i \in 1..Len(source_locations) :
                     EndsWith(source_locations[i], suffix)}
    IN  IF hits = {} THEN ""
        ELSE source_locations[CHOOSE i \in hits : \A j \in hits : i <= j]

\* The choice with one pass for both suffixes: the first entry of either.
CodeRefLocFirstOfEither(source_locations) ==
    LET hits == {i \in 1..Len(source_locations) :
                     \/ EndsWith(source_locations[i], ".sql")
                     \/ EndsWith(source_locations[i], ".sdf.yml")}
    IN  IF hits = {} THEN "workspace.sdf.yml"
        ELSE source_locations[CHOOSE i \in hits : \A j \in hits : i <= j]

\* `a or b or c`: None and the empty string are both false.
CodeRefLoc(source_locations) ==
    IF FirstEndingWith(source_locations, ".sql") # ""
    THEN FirstEndingWith(source_locations, ".sql")
    ELSE IF FirstEndingWith(source_locations, ".sdf.yml") # ""
    THEN FirstEndingWith(source_locations, ".sdf.yml")
    ELSE "workspace.sdf.yml"

\* The CodeReferencesMetadataSet as the dict it unpacks to: one entry, the
\* list of LocalFileCodeReference file paths.
_extract_code_ref(table_row) ==
    "dagster/code_references" :>
        <<JoinPath(workspace_dir, CodeRefLoc(table_row.source_locations))>>

NoMetadata == <<>>

CodeReferences(settings, table_row) ==
    IF settings.enable_code_references
    THEN _extract_code_ref(table_row)
    ELSE NoMetadata

(***************************************************************************)
(* Step 3 of build_sdf_multi_asset_args (lines 138-187).                   *)
(***************************************************************************)
\* The condition of line 148 alone.
IsOutputIgnoringRemote(d, table_row) ==
    table_row.table_id \notin DOMAIN d.table_id_to_dep

\* The row produces an output: it is neither annotated as a dependency nor
\* a collected remote table (lines 147-150).
IsOutput(d, table_row) ==
    /\ table_row.table_id \notin DOMAIN d.table_id_to_dep
    /\ table_row.table_id \notin d.origin_remote_tables

\* The asset key one entry of depends_on stands for (lines 152-159).
DepKey(d, rows, dep) ==
    IF dep \in DOMAIN d.table_id_to_dep
    THEN d.table_id_to_dep[dep]
    ELSE LET dep_row == TableRowsDeps(rows)[dep]
         IN  GetAssetKey(dep_row.catalog_name, dep_row.schema_name,
                         dep_row.table_name)

\* The comprehension without `dep not in origin_remote_tables`.
InternalDepsKeepingRemote(d, rows, table_row) ==
    {DepKey(d, rows, table_row.depends_on[i]) :
        i \in {j \in 1..Len(table_row.depends_on) :
                  table_row.depends_on[j] \in TableIdColumn(rows)}}

\* The set comprehension of lines 151-161, before the union of line 162.
InternalDeps(d, rows, table_row) ==
    {DepKey(d, rows, table_row.depends_on[i]) :
        i \in {j \in 1..Len(table_row.depends_on) :
                  /\ table_row.depends_on[j] \notin d.origin_remote_tables
                  /\ table_row.depends_on[j] \in TableIdColumn(rows)}}

\* table_id_to_upstream.get(table_id, set())
UpstreamOf(d, table_row) ==
    IF table_row.table_id \in DOMAIN d.table_id_to_upstream
    THEN d.table_id_to_upstream[table_row.table_id]
    ELSE {}

Dependencies(d, rows, table_row) ==
    InternalDeps(d, rows, table_row) \cup UpstreamOf(d, table_row)

RowAssetKey(table_row) ==
    GetAssetKey(table_row.catalog_name, table_row.schema_name, table_row.table_name)

AssetSpecOf(settings, d, rows, table_row) ==
    [key         |-> RowAssetKey(table_row),
     deps        |-> Dependencies(d, rows, table_row),
     description |-> GetDescription(table_row),
     metadata    |-> CodeReferences(settings, table_row),
     skippable   |-> TRUE]

\* The two prefixes exchanged.
TestNamePrefixSwapped(table_row) ==
    IF table_row.dialect = "snowflake" THEN "test_" ELSE "TEST_"

TestNamePrefix(table_row) ==
    IF table_row.dialect = "snowflake" THEN "TEST_" ELSE "test_"

AssetCheckSpecOf(table_row) ==
    [name  |-> table_row.catalog_name \o "." \o table_row.schema_name \o "."
                   \o TestNamePrefix(table_row) \o table_row.table_name,
     asset |-> RowAssetKey(table_row)]

\* asset_specs and asset_checks before the loop (lines 106-107).
NoOuts == [asset_specs |-> <<>>, asset_checks |-> <<>>]

RECURSIVE OutsLoop(_, _, _, _, _)
OutsLoop(acc, settings, d, rows, i) ==
    IF i > Len(rows) THEN acc
    ELSE IF ~IsOutput(d, rows[i]) THEN OutsLoop(acc, settings, d, rows, i + 1)
    ELSE OutsLoop(
            [asset_specs  |-> Append(acc.asset_specs,
                                     AssetSpecOf(settings, d, rows, rows[i])),
             asset_checks |-> IF settings.enable_asset_checks
                              THEN Append(acc.asset_checks, AssetCheckSpecOf(rows[i]))
                              ELSE acc.asset_checks],
            settings, d, rows, i + 1)

\* The outcome of build_sdf_multi_asset_args with the cache `cache`.
build_sdf_multi_asset_args(settings, cache) ==
    LET r == read_table("table_deps", cache)
        table_deps == FilterPurpose(r.value)
        outs == OutsLoop(NoOuts, settings, BuildDeps(table_deps), table_deps, 1)
    IN  IF r.raised # "none"
        THEN [raised |-> r.raised, cache |-> r.cache, reads |-> r.reads,
              read |-> <<>>, asset_specs |-> <<>>, asset_checks |-> <<>>]
        ELSE [raised |-> "none", cache |-> r.cache, reads |-> r.reads,
              read |-> r.value,
              asset_specs |-> outs.asset_specs, asset_checks |-> outs.asset_checks]

BuildSdfMultiAssetArgs(settings) ==
    LET b == build_sdf_multi_asset_args(settings, information_schema)
    IN  /\ information_schema' = b.cache
        /\ ret' = [op |-> "build_sdf_multi_asset_args", settings |-> settings,
                   raised |-> b.raised, reads |-> b.reads, table_deps |-> b.read,
                   asset_specs |-> b.asset_specs, asset_checks |-> b.asset_checks]
        /\ UNCHANGED files

(***************************************************************************)
(* get_columns and stream_asset_observations.                              *)
(***************************************************************************)
TableColumn(row) ==
    [name |-> row.column_name, type |-> row.datatype,
     description |-> row.description, constraints |-> row.classifiers]

\* The loop body with every row filed under the first table_id seen.
ColumnsStepFirstTable(table_columns, row) ==
    IF DOMAIN table_columns = {}
    THEN row.table_id :> <<TableColumn(row)>>
    ELSE [id \in DOMAIN table_columns |-> Append(table_columns[id], TableColumn(row))]

\* One row of the loop of lines 194-204.
ColumnsStep(table_columns, row) ==
    IF row.table_id \notin DOMAIN table_columns
    THEN (row.table_id :> <<TableColumn(row)>>) @@ table_columns
    ELSE [table_columns EXCEPT ![row.table_id] = Append(@, TableColumn(row))]

RECURSIVE ColumnsLoop(_, _, _)
ColumnsLoop(table_columns, columns, i) ==
    IF i > Len(columns) THEN table_columns
    ELSE ColumnsLoop(ColumnsStep(table_columns, columns[i]), columns, i + 1)

TableColumns(columns) == ColumnsLoop(<<>>, columns, 1)

get_columns(cache) ==
    LET r == read_table("columns", cache)
    IN  [raised |-> r.raised, cache |-> r.cache, reads |-> r.reads,
         read |-> r.value,
         table_columns |-> IF r.raised = "none" THEN TableColumns(r.value) ELSE <<>>]

GetColumns ==
    LET g == get_columns(information_schema)
    IN  /\ information_schema' = g.cache
        /\ ret' = [op |-> "get_columns", raised |-> g.raised, reads |-> g.reads,
                   columns |-> g.read, table_columns |-> g.table_columns]
        /\ UNCHANGED files

\* table_columns.get(table_id, [])
ColumnSchema(table_columns, table_id) ==
    IF table_id \in DOMAIN table_columns THEN table_columns[table_id] ELSE <<>>

AssetObservationOf(settings, table_columns, table_row) ==
    [asset_key   |-> RowAssetKey(table_row),
     description |-> GetDescription(table_row),
     metadata    |-> ("dagster/column_schema" :>
                          ColumnSchema(table_columns, table_row.table_id))
                     @@ ("dagster/relation_identifier" :> table_row.table_id)
                     @@ CodeReferences(settings, table_row)]

\* The outcome of a stream_asset_observations generator run to its end.
stream_asset_observations(settings, cache) ==
    LET g == get_columns(cache)
        r == read_table("tables", g.cache)
        tables == FilterPurpose(r.value)
    IN  IF g.raised # "none"
        THEN [raised |-> g.raised, cache |-> g.cache, reads |-> g.reads,
              tables |-> <<>>, columns |-> <<>>, yielded |-> <<>>]
        ELSE IF r.raised # "none"
        THEN [raised |-> r.raised, cache |-> r.cache, reads |-> g.reads \o r.reads,
              tables |-> <<>>, columns |-> g.read, yielded |-> <<>>]
        ELSE [raised |-> "none", cache |-> r.cache, reads |-> g.reads \o r.reads,
              tables |-> r.value, columns |-> g.read,
              yielded |-> [i \in 1..Len(tables) |->
                              AssetObservationOf(settings, g.table_columns, tables[i])]]

StreamAssetObservations(settings) ==
    LET o == stream_asset_observations(settings, information_schema)
    IN  /\ information_schema' = o.cache
        /\ ret' = [op |-> "stream_asset_observations", settings |-> settings,
                   raised |-> o.raised, reads |-> o.reads, tables |-> o.tables,
                   columns |-> o.columns, yielded |-> o.yielded]
        /\ UNCHANGED files

(***************************************************************************)
(* The sdf CLI, which writes the information schema: it replaces or        *)
(* removes the file of a table between two calls on the instance.          *)
(***************************************************************************)
WriteFile(table_name, file) ==
    /\ files[table_name] # file
    /\ files' = [files EXCEPT ![table_name] = file]
    /\ ret' = [op |-> "sdf", table_name |-> table_name]
    /\ UNCHANGED information_schema

(***************************************************************************)
(* Rows of the information schema.  The table_id of a table is             *)
(* <catalog>.<schema>.<table>, so no two rows of a frame share one; the    *)
(* i-th row of a frame is the table TableNamesPool[i].                     *)
(***************************************************************************)
TableNamesPool == <<"orders", "users", "events", "visits">>

TableId(table_name) == "db.pub." \o table_name

UnknownTableId == TableId("ghost")

MetaEntry(k, v) == [keys |-> k, values |-> v]

TableRow(table_name, purpose, origin, dialect, meta, depends_on, source_locations) ==
    [table_id         |-> TableId(table_name),
     catalog_name     |-> "db",
     schema_name      |-> "pub",
     table_name       |-> table_name,
     purpose          |-> purpose,
     origin           |-> origin,
     dialect          |-> dialect,
     meta             |-> meta,
     depends_on       |-> depends_on,
     source_locations |-> source_locations]

ColumnRow(table_id, column_name) ==
    [table_id    |-> table_id,
     column_id   |-> table_id \o "." \o column_name,
     classifiers |-> <<>>,
     column_name |-> column_name,
     datatype    |-> "bigint",
     description |-> "column " \o column_name]

\* The sequences of length at most n over S.
SeqsUpTo(S, n) == UNION {[1..k -> S] : k \in 0..n}

(***************************************************************************)
(* The frames the calls are run on.                                        *)
(***************************************************************************)
AssetKeyMeta == MetaEntry("dagster-asset-key", "raw_orders")
UpstreamMeta1 == MetaEntry("dagster-depends-on-asset-key", "ingest_a")
UpstreamMeta2 == MetaEntry("dagster-depends-on-asset-key", "ingest_b")
OtherMeta == MetaEntry("owner", "data-team")

\* What decides the part a row plays in the lineage.
Profile(purpose, origin, meta) ==
    [purpose |-> purpose, origin |-> origin, meta |-> meta]

LineageProfiles ==
    {Profile("model", "local", <<>>),
     Profile("model", "local", <<OtherMeta>>),
     Profile("model", "local", <<AssetKeyMeta>>),
     Profile("model", "local", <<UpstreamMeta1, UpstreamMeta2>>),
     Profile("model", "remote", <<>>),
     Profile("model", "remote", <<AssetKeyMeta>>),
     Profile("model", "remote", <<AssetKeyMeta, OtherMeta>>),
     Profile("model", "remote", <<UpstreamMeta1>>),
     Profile("system", "local", <<AssetKeyMeta>>),
     Profile("external-system", "remote", <<>>)}

DefaultLocs == <<"models/model.sql">>

\* depends_on of the one row of a frame of n rows that has dependencies: one
\* table of the frame, a table that is in no frame, or all of them.
DependsOnChoices(n) ==
    {<<id>> : id \in {TableId(TableNamesPool[i]) : i \in 1..n} \cup {UnknownTableId}}
    \cup {[i \in 1..(n + 1) |->
              IF i <= n THEN TableId(TableNamesPool[i]) ELSE UnknownTableId]}

\* table_deps frames of at most max_rows rows of any profile, at most one of
\* which (the k-th) depends on other tables.
LineageInputs(max_rows) ==
    UNION {UNION {
        {[i \in 1..n |->
             TableRow(TableNamesPool[i], p[i].purpose, p[i].origin, "presto",
                      p[i].meta, IF i = k THEN deps ELSE <<>>, DefaultLocs)] :
            p \in [1..n -> LineageProfiles],
            deps \in IF k = 0 THEN {<<>>} ELSE DependsOnChoices(n)} :
        k \in 0..n} : n \in 0..max_rows}

\* table_deps frames whose rows differ in dialect.
DialectProfiles ==
    [purpose : {"model"}, meta : {<<>>}, dialect : {"snowflake", "presto", "SNOWFLAKE"}]
    \cup {[purpose |-> "model", meta |-> <<AssetKeyMeta>>, dialect |-> "snowflake"],
          [purpose |-> "system", meta |-> <<>>, dialect |-> "snowflake"]}

DialectInputs(max_rows) ==
    UNION {
        {[i \in 1..n |->
             TableRow(TableNamesPool[i], p[i].purpose, "local", p[i].dialect,
                      p[i].meta, <<>>, DefaultLocs)] :
            p \in [1..n -> DialectProfiles]} : n \in 1..max_rows}

TableDepsInputs(max_rows) == LineageInputs(max_rows) \cup DialectInputs(max_rows)

\* tables frames and columns frames.
TablesInputs(max_rows) ==
    UNION {
        {[i \in 1..n |->
             TableRow(TableNamesPool[i], p[i], "local", "presto", <<>>, <<>>,
                      DefaultLocs)] :
            p \in [1..n -> {"model", "system", "external-system"}]} :
        n \in 0..max_rows}

\* Column rows of the first table, of the second and of a table of no frame.
ColumnChoices ==
    {ColumnRow(TableId(TableNamesPool[1]), "id"),
     ColumnRow(TableId(TableNamesPool[1]), "ts"),
     ColumnRow(TableId(TableNamesPool[2]), "id"),
     ColumnRow(UnknownTableId, "id")}

ColumnsInputs(max_cols) == SeqsUpTo(ColumnChoices, max_cols)

\* Frames with a row of any source_locations, alone or beside a second table.
SourceLocations ==
    {"models/a.sql", "models/b.sql", "a.sdf.yml", "b.sdf.yml", "dbt.yml",
     "notes.sql.txt"}

ContextRow ==
    TableRow(TableNamesPool[2], "model", "local", "presto", <<>>, <<>>,
             <<"models/users.sql">>)

LocationInputs(max_locs) ==
    UNION {
        LET subject == TableRow(TableNamesPool[1], p.purpose, "local", "presto",
                                p.meta, <<>>, locs)
        IN  {<<subject>>, <<ContextRow, subject>>, <<subject, ContextRow>>} :
        p \in [purpose : {"model"}, meta : {<<>>, <<AssetKeyMeta>>}]
              \cup {[purpose |-> "system", meta |-> <<>>]},
        locs \in SeqsUpTo(SourceLocations, max_locs)}

\* The versions of each file the sdf CLI writes in turn.
OrdersRow ==
    TableRow("orders", "model", "local", "presto", <<>>, <<>>, DefaultLocs)

TableDepsVersions ==
    {File(<<OrdersRow>>),
     File(<<TableRow("orders", "model", "local", "presto", <<>>,
                     <<TableId("users")>>, DefaultLocs),
            TableRow("users", "model", "local", "presto", <<AssetKeyMeta>>, <<>>,
                     DefaultLocs)>>)}

TablesVersions ==
    {File(<<OrdersRow>>),
     File(<<OrdersRow,
            TableRow("users", "system", "local", "presto", <<>>, <<>>,
                     DefaultLocs)>>)}

ColumnsVersions ==
    {File(<<ColumnRow(TableId("orders"), "id")>>),
     File(<<ColumnRow(TableId("orders"), "id"),
            ColumnRow(TableId("orders"), "ts")>>)}

LineageVersions == {File(<<>>), NoFile}

FileVersions(table_name) ==
    CASE table_name = "table_deps" -> TableDepsVersions
      [] table_name = "tables" -> TablesVersions
      [] table_name = "columns" -> ColumnsVersions
      [] table_name = "column_lineage" -> LineageVersions
      [] OTHER -> {File(<<>>)}

InitialFile(table_name) ==
    CHOOSE f \in FileVersions(table_name) :
        /\ f.exists
        /\ \A g \in FileVersions(table_name) : g.exists => Len(f.rows) <= Len(g.rows)

EmptyFiles == [n \in ValidTableNames |-> File(<<>>)]

NewInstance ==
    /\ information_schema = <<>>
    /\ ret = [op |-> "new"]

(***************************************************************************)
(* The specifications.                                                     *)
(***************************************************************************)
\* Any sequence of calls on one instance, the sdf CLI rewriting files in
\* between.
Init ==
    /\ files = [n \in ValidTableNames |-> InitialFile(n)]
    /\ NewInstance

Next ==
    \/ \E table_name \in CalledTableNames : ReadTable(table_name)
    \/ \E settings \in Settings : BuildSdfMultiAssetArgs(settings)
    \/ GetColumns
    \/ \E settings \in Settings : StreamAssetObservations(settings)
    \/ \E table_name \in ValidTableNames :
          \E file \in FileVersions(table_name) : WriteFile(table_name, file)

Spec == Init /\ [][Next]_vars

\* build_sdf_multi_asset_args on every table_deps frame.
InitBuild ==
    /\ \E table_deps \in TableDepsInputs(MaxRows) :
          files = [EmptyFiles EXCEPT !["table_deps"] = File(table_deps)]
    /\ NewInstance

NextBuild == \E settings \in Settings : BuildSdfMultiAssetArgs(settings)

SpecBuild == InitBuild /\ [][NextBuild]_vars

\* get_columns and stream_asset_observations on every tables and columns frame.
InitObs ==
    /\ \E tables \in TablesInputs(MaxRows), columns \in ColumnsInputs(MaxCols) :
          files = [EmptyFiles EXCEPT !["tables"] = File(tables),
                                     !["columns"] = File(columns)]
    /\ NewInstance

NextObs ==
    \/ GetColumns
    \/ \E settings \in Settings : StreamAssetObservations(settings)

SpecObs == InitObs /\ [][NextObs]_vars

\* Both translations on frames of every source_locations.
InitCodeRef ==
    /\ \E rows \in LocationInputs(MaxLocs) :
          files = [EmptyFiles EXCEPT !["table_deps"] = File(rows),
                                     !["tables"] = File(rows)]
    /\ NewInstance

NextCodeRef ==
    \/ \E settings \in Settings : BuildSdfMultiAssetArgs(settings)
    \/ \E settings \in Settings : StreamAssetObservations(settings)

SpecCodeRef == InitCodeRef /\ [][NextCodeRef]_vars

(***************************************************************************)
(* The claims.  What a claim says of a frame is stated here from the rows  *)
(* themselves, not from the loops above.                                   *)
(***************************************************************************)
Built == ret.op = "build_sdf_multi_asset_args" /\ ret.raised = "none"

Streamed == ret.op = "stream_asset_observations" /\ ret.raised = "none"

HasMetaKey(row, k) == \E i \in 1..Len(row.meta) : row.meta[i].keys = k

\* The values of the row's meta entries of key k.
MetaValues(row, k) ==
    {row.meta[i].values : i \in {j \in 1..Len(row.meta) : row.meta[j].keys = k}}

InnerRows(rows) ==
    LET Inner(row) == row.purpose # "system" /\ row.purpose # "external-system"
    IN  SelectSeq(rows, Inner)

\* The remote-origin tables the code collects: the inner rows of origin
\* remote with no meta, or with a meta entry that is neither annotation.
CollectedRemote(rows) ==
    {row.table_id : row \in
        {r \in {InnerRows(rows)[i] : i \in 1..Len(InnerRows(rows))} :
            /\ r.origin = "remote"
            /\ \/ Len(r.meta) = 0
               \/ \E i \in 1..Len(r.meta) :
                     /\ r.meta[i].keys # "dagster-asset-key"
                     /\ r.meta[i].keys # "dagster-depends-on-asset-key"}}

\* The rows the claims give an asset spec to, in row order.
OutputRows(rows) ==
    LET Out(row) ==
            /\ row.purpose # "system" /\ row.purpose # "external-system"
            /\ ~HasMetaKey(row, "dagster-asset-key")
            /\ row.table_id \notin CollectedRemote(rows)
    IN  SelectSeq(rows, Out)

\* C1: the asset specs returned by build_sdf_multi_asset_args correspond one
\* to one, in row order, to the rows of table_deps whose purpose is neither
\* system nor external-system, that carry no dagster-asset-key meta entry and
\* that are not collected remote-origin tables; each has the translator's
\* asset key of its row and is skippable.
C1_SpecsAreTheOutputRows ==
    Built =>
        LET out == OutputRows(ret.table_deps)
        IN  /\ Len(ret.asset_specs) = Len(out)
            /\ \A i \in 1..Len(out) :
                  /\ ret.asset_specs[i].key =
                        GetAssetKey(out[i].catalog_name, out[i].schema_name,
                                    out[i].table_name)
                  /\ ret.asset_specs[i].skippable

\* A frame of two inner rows of which the first, annotated as a dependency,
\* gets no spec and the second does.
C1_Witness ==
    /\ Built
    /\ Len(ret.table_deps) = 2
    /\ HasMetaKey(ret.table_deps[1], "dagster-asset-key")
    /\ ret.table_deps[1].purpose = "model"
    /\ Len(ret.asset_specs) = 1
    /\ ret.asset_specs[1].key = <<"db", "pub", "users">>

\* The asset key a dependency on the table of `dep_row` stands for.
ExpectedDepKey(dep_row) ==
    IF HasMetaKey(dep_row, "dagster-asset-key")
    THEN AssetKey(dep_row.meta[
             CHOOSE i \in 1..Len(dep_row.meta) :
                 /\ dep_row.meta[i].keys = "dagster-asset-key"
                 /\ \A j \in (i + 1)..Len(dep_row.meta) :
                       dep_row.meta[j].keys # "dagster-asset-key"].values)
    ELSE GetAssetKey(dep_row.catalog_name, dep_row.schema_name, dep_row.table_name)

ExpectedDeps(rows, row) ==
    LET inner == {InnerRows(rows)[i] : i \in 1..Len(InnerRows(rows))}
        targets == {r \in inner :
                       /\ \E j \in 1..Len(row.depends_on) :
                             row.depends_on[j] = r.table_id
                       /\ r.table_id \notin CollectedRemote(rows)}
    IN  {ExpectedDepKey(r) : r \in targets}
        \cup {AssetKey(v) : v \in MetaValues(row, "dagster-depends-on-asset-key")}

C3_ChecksFollowSpecs ==
    Built =>
        LET out == OutputRows(ret.table_deps)
        IN  IF ret.settings.enable_asset_checks
            THEN /\ Len(ret.asset_checks) = Len(ret.asset_specs)
                 /\ \A i \in 1..Len(ret.asset_checks) :
                       /\ ret.asset_checks[i].asset = ret.asset_specs[i].key
                       /\ i <= Len(out) =>
                             ret.asset_checks[i].name =
                                 out[i].catalog_name \o "." \o out[i].schema_name
                                 \o (IF out[i].dialect = "snowflake"
                                     THEN ".TEST_" ELSE ".test_")
                                 \o out[i].table_name
            ELSE ret.asset_checks = <<>>

\* Two checks, of a snowflake table and of a table of another dialect.
C3_Witness ==
    /\ Built
    /\ ret.settings.enable_asset_checks
    /\ Len(ret.asset_checks) = 2
    /\ ret.asset_checks[1].name = "db.pub.TEST_orders"
    /\ ret.asset_checks[2].name = "db.pub.test_users"

\* The column schema the claims give a table: the columns rows of its
\* table_id, in the order of the frame.
ExpectedSchema(columns, table_id) ==
    LET Mine(row) == row.table_id = table_id
        mine == SelectSeq(columns, Mine)
    IN  [i \in 1..Len(mine) |->
            [name |-> mine[i].column_name, type |-> mine[i].datatype,
             description |-> mine[i].description,
             constraints |-> mine[i].classifiers]]

\* C4: stream_asset_observations yields one observation per row of tables
\* whose purpose is neither system nor external-system, in row order, with the
\* translator's asset key of the row, its table_id as relation_identifier and,
\* as column schema, the columns rows of that table_id in their order (none
\* when there is no such row); get_columns files every columns row under its
\* table_id and under no other.
C4_OneObservationPerInnerRow ==
    /\ Streamed =>
          LET inner == InnerRows(ret.tables)
          IN  /\ Len(ret.yielded) = Len(inner)
              /\ \A i \in 1..Len(inner) :
                    /\ ret.yielded[i].asset_key =
                          GetAssetKey(inner[i].catalog_name, inner[i].schema_name,
                                      inner[i].table_name)
                    /\ ret.yielded[i].metadata["dagster/relation_identifier"] =
                          inner[i].table_id
                    /\ ret.yielded[i].metadata["dagster/column_schema"] =
                          ExpectedSchema(ret.columns, inner[i].table_id)
    /\ (ret.op = "get_columns" /\ ret.raised = "none") =>
          /\ DOMAIN ret.table_columns =
                {ret.columns[i].table_id : i \in 1..Len(ret.columns)}
          /\ \A id \in DOMAIN ret.table_columns :
                ret.table_columns[id] = ExpectedSchema(ret.columns, id)

\* Two observations: of a table with no columns row, then of a table whose
\* two columns rows come with a row of another table between them.
C4_Witness ==
    /\ Streamed
    /\ Len(ret.tables) > Len(ret.yielded)
    /\ Len(ret.columns) = 2
    /\ ret.columns[1].table_id # ret.columns[2].table_id
    /\ \E i \in 1..Len(ret.yielded) :
          Len(ret.yielded[i].metadata["dagster/column_schema"]) = 1

\* C5: read_table with a name that is no information schema table fails the
\* check, reads no file and leaves information_schema as it was; the keys of
\* information_schema are always valid table names.
C5_InvalidNameIsRejected ==
    /\ DOMAIN information_schema \subseteq ValidTableNames
    /\ (ret.op = "read_table" /\ ret.table_name \notin ValidTableNames) =>
          /\ ret.raised = "CheckError"
          /\ ret.reads = <<>>
          /\ information_schema = ret.before

\* A rejected call on an instance that has already cached tables.
C5_Witness ==
    /\ ret.op = "read_table"
    /\ ret.table_name = "models"
    /\ ret.raised = "CheckError"
    /\ Cardinality(DOMAIN information_schema) >= 2

\* C6: the deps of a returned asset spec hold at most one asset key that
\* comes from the dagster-depends-on-asset-key meta entries of its row.
C6_AtMostOneUpstream ==
    Built =>
        LET out == OutputRows(ret.table_deps)
        IN  \A i \in 1..Len(ret.asset_specs) :
               i <= Len(out) =>
                   Cardinality(
                       {k \in ret.asset_specs[i].deps :
                           \E v \in MetaValues(out[i], "dagster-depends-on-asset-key") :
                               k = AssetKey(v)}) <= 1

\* C7 as claimed: read_table returns what the file of the table holds at the
\* time of the call.
C7_ReturnsTheFileOfTheCall ==
    (ret.op = "read_table" /\ ret.raised = "none") =>
        ret.value = files[ret.table_name].rows

\* C7, amended: a read_table call whose file can be read returns the frame
\* information_schema already holds for the table, whatever the file holds
\* now, and leaves information_schema as it was; only the first read of a
\* table returns the contents of the file, and stores them.
C7_ReturnsTheFirstRead ==
    (ret.op = "read_table" /\ ret.raised = "none") =>
        /\ ret.reads = <<ret.table_name>>
        /\ information_schema[ret.table_name] = ret.value
        /\ IF ret.table_name \in DOMAIN ret.before
           THEN /\ ret.value = ret.before[ret.table_name]
                /\ information_schema = ret.before
           ELSE ret.value = files[ret.table_name].rows

\* A second read of a table whose file changed since the first.
C7_Witness ==
    /\ ret.op = "read_table"
    /\ ret.raised = "none"
    /\ ret.table_name \in DOMAIN ret.before
    /\ ret.value # files[ret.table_name].rows

\* Where the claims say a row's code reference points.
IsExpectedLoc(source_locations, loc) ==
    LET Ending(suffix) ==
            {i \in 1..Len(source_locations) : EndsWith(source_locations[i], suffix)}
        FirstOf(suffix) ==
            \E i \in Ending(suffix) :
                /\ loc = source_locations[i]
                /\ \A j \in Ending(suffix) : j >= i
    IN  IF Ending(".sql") # {} THEN FirstOf(".sql")
        ELSE IF Ending(".sdf.yml") # {} THEN FirstOf(".sdf.yml")
        ELSE loc = "workspace.sdf.yml"

HasExpectedCodeRef(settings, metadata, table_row) ==
    IF settings.enable_code_references
    THEN /\ "dagster/code_references" \in DOMAIN metadata
         /\ Len(metadata["dagster/code_references"]) = 1
         /\ \E loc \in {table_row.source_locations[i] :
                            i \in 1..Len(table_row.source_locations)}
                        \cup {"workspace.sdf.yml"} :
               /\ IsExpectedLoc(table_row.source_locations, loc)
               /\ metadata["dagster/code_references"][1] =
                     workspace_dir \o "/" \o loc
    ELSE "dagster/code_references" \notin DOMAIN metadata

====
